---- MODULE Spec2Model ----
(***************************************************************************)
(* The citizen client's issue form (IssueForm.tsx) and the backend it      *)
(* talks to: the draft state, image selection with its FileReader          *)
(* previews, and handleSubmit's pipeline getUser -> insert issue ->        *)
(* per-image upload and image-record insert, with the row-level-security   *)
(* and check constraints of the migrations deciding the backend's answers. *)
(* Beside it the issue list (IssueList.tsx) and the map (MapView.tsx):     *)
(* their fetch effects on refreshTrigger, the list's search and filter     *)
(* criteria, its filter effect, and what each commit puts on the screen.   *)
(*                                                                         *)
(* A text is the sequence of its characters.                               *)
(* An effect runs after the commit of the render that changed one of its   *)
(* dependencies; effects records the dependencies each last ran with.      *)
(* An optional value (null | x) is the set {} or {x}.                      *)
(* Every `await` is two steps: the request is issued (it joins inflight    *)
(* and the log calls) and later settles (the backend acts and answers).    *)
(* Date.now() in the storage key is left out of the key: the issue id and  *)
(* the ordinal already tell the keys apart and no branch reads it.         *)
(***************************************************************************)
EXTENDS Integers, Sequences, FiniteSets, TLC

\* ---------------------------------------------------------------- bounds
\* handleSubmit invocations that pass validation, in one run
MaxSubmits == 1
\* backend calls that fail for a reason outside the model (network, server)
MaxFailures == 2
\* files offered by one selection event
MaxPick == 1
\* files the user selects in one run
MaxFiles == 3

\* files the user offers in one run of the image-selection scenarios
MaxOffered == 7
\* issues the list holds, in the scenarios of the issue list
MaxIssues == 2
\* handleSubmit invocations that pass validation, in the scenario of repeated submissions
MaxAttempts == 3
\* changes of the auth client's session after the layout mounts
MaxAuthEvents == 3

\* ------------------------------------------------------ program constants
MaxImages == 5

ISSUE_CATEGORIES ==
  {"pothole", "streetlight", "traffic", "sidewalk", "graffiti", "garbage", "water", "park", "other"}
PRIORITY_LEVELS == {"low", "medium", "high", "urgent"}
\* the check constraints of the issues table
issues_category_check ==
  {"pothole", "streetlight", "traffic", "sidewalk", "graffiti", "garbage", "water", "park", "other"}
issues_priority_check == {"low", "medium", "high", "urgent"}

\* ------------------------------------------------------------ input sets
Null == {}
Some(x) == {x}
The(s) == CHOOSE x \in s : TRUE

\* a text is the sequence of its characters; '' is <<>>
\* what the user types, and picks in the two Selects and on the map
Titles == {<<>>, <<"t">>}
Descriptions == {<<>>, <<"d">>}
CategoryChoices == {c \in ISSUE_CATEGORIES : c = "pothole"}
\* what onValueChange, a (value: string) => void, can be handed
CategoryStrings == CategoryChoices \cup {"noise"}
PriorityChoices == {q \in PRIORITY_LEVELS : q \in {"medium", "high"}}
Points == {[lat |-> 1, lng |-> 2]}
\* how many files one selection event offers, in the image-selection scenarios:
\* one, a few, or one more than the form takes
PickSizes == {1, 2, MaxImages + 1}
\* the k-th File the user ever selects: its identity and its name, split at the dots
FileAt(k) == [id |-> k, name |-> IF k % 2 = 1 THEN <<"a", "jpg">> ELSE <<"b", "tar", "gz">>]

\* issues reported from elsewhere, as the issues table returns them
Issue(id, ttl, desc, status, cat, pri) ==
  [id |-> id, title |-> ttl, description |-> desc, category |-> cat, priority |-> pri,
   user_id |-> "u2", location |-> [type |-> "Point", coordinates |-> <<2, 1>>],
   status |-> status]
SampleIssues ==
  {Issue(101, <<"A", "b">>, Null, "open", "pothole", "high"),
   Issue(102, <<"b">>, Some(<<"b", "A">>), "open", "garbage", "low"),
   Issue(103, <<"b", "b">>, Some(<<>>), "resolved", "pothole", "low"),
   Issue(104, <<"B">>, Null, "resolved", "garbage", "high")}
\* what the user types into the search box, and picks in the three filter Selects
SearchTerms == {<<>>, <<"a">>, <<"A", "b">>}
StatusFilters == {"all", "open"}
CategoryFilters == {"all"} \cup {c \in ISSUE_CATEGORIES : c = "pothole"}
PriorityFilters == {"all"} \cup {q \in PRIORITY_LEVELS : q = "high"}

VARIABLES
  loading, title, description, category, priority, location, images, imagePreview,
  readers,
  pc, sub, user, issueId, issue, i, fileName,
  toasts, calls, inflight,
  authUid, issuesTbl, imagesTbl, storage,
  nextUuid, nextFile, refreshTrigger, submits, failures,
  issues, filteredIssues, listLoading, searchTerm, statusFilter, categoryFilter, priorityFilter,
  mapIssues, mapLoading,
  effects, screen, fetches, fetching, responses,
  second,
  session, layoutUser, layoutLoading, client, gs, notices, shown

draftVars == <<title, description, category, priority, location, images, imagePreview>>
runVars == <<pc, sub, user, issueId, issue, i, fileName>>
backendVars == <<authUid, issuesTbl, imagesTbl, storage>>
formVars == <<loading, draftVars, readers, runVars, calls, inflight, nextUuid, nextFile, submits>>
\* IssueList's state, MapView's state, and the renderer's: the dependencies each
\* effect last ran with, what the last commit put on the screen for IssueList, and
\* the fetchIssues calls (their log, those pending, and the backend's answers to them)
listVars == <<issues, filteredIssues, listLoading, searchTerm, statusFilter, categoryFilter,
              priorityFilter>>
mapVars == <<mapIssues, mapLoading>>
viewVars == <<listVars, mapVars, effects, screen, fetches, fetching, responses>>
\* AppLayout's state, the auth client's session, the getSession promise, the
\* notifications not yet delivered, and which auth information the layout shows
layoutVars == <<session, layoutUser, layoutLoading, client, gs, notices, shown>>
vars == <<loading, draftVars, readers, runVars, toasts, calls, inflight,
          backendVars, nextUuid, nextFile, refreshTrigger, submits, failures, viewVars,
          second, layoutVars>>

\* ------------------------------------------------------------- helpers
\* file.name.split('.').pop()
FileExt(file) == file.name[Len(file.name)]
\* `${issue.id}/${Date.now()}-${i}.${fileExt}`
StorageKey(iss, k, file) == [issue |-> iss.id, i |-> k, ext |-> FileExt(file)]
\* supabase.storage.from('issue-images').getPublicUrl(fileName)
PublicUrl(key) == [bucket |-> "issue-images", key |-> key]
\* reader.readAsDataURL(file): e.target.result
DataUrl(file) == [data |-> file.id]
\* array.filter((_, j) => j !== index), index counted from 0
RECURSIVE FilterOut(_, _)
FilterOut(s, index) ==
  IF s = <<>> THEN <<>>
  ELSE IF index = 0 THEN Tail(s)
  ELSE <<Head(s)>> \o FilterOut(Tail(s), index - 1)

Toast(variant, ttl, desc) == [variant |-> variant, title |-> ttl, description |-> desc]
LocationRequired == Toast("destructive", "Location required", "Please select a location for the issue.")
CategoryRequired == Toast("destructive", "Category required", "Please select a category for the issue.")
TooManyImages == Toast("destructive", "Too many images", "You can upload a maximum of 5 images per issue.")
Reported == Toast("default", "Issue reported successfully!", "Thank you for helping improve your community.")
FailedToReport(message) == Toast("destructive", "Failed to report issue", message)
FailedToLoad(message) == Toast("destructive", "Failed to load issues", message)

Req(op, idx) == [op |-> op, idx |-> idx]
\* an entry of the log: a request is called, or settles ok | error | none
Ev(op, ph, idx, message) == [op |-> op, ph |-> ph, idx |-> idx, message |-> message]
\* a request is issued: it is pending until it settles
Pending(fl, req) == fl \cup {req}
\* (variant: the request is left pending, as a call that is not awaited)
SettledNotAwaited(fl, req) == fl
\* the awaited request has settled
Settled(fl, req) == fl \ {req}

\* (variant: coordinates in latitude-then-longitude order)
IssueRowLatLng(id, d, u) ==
  [id |-> id, title |-> d.title, description |-> d.description, category |-> d.category,
   priority |-> d.priority, user_id |-> u,
   location |-> [type |-> "Point", coordinates |-> <<The(d.location).lat, The(d.location).lng>>]]
\* the row handleSubmit inserts into issues
IssueRow(id, d, u) ==
  [id |-> id, title |-> d.title, description |-> d.description, category |-> d.category,
   priority |-> d.priority, user_id |-> u,
   location |-> [type |-> "Point", coordinates |-> <<The(d.location).lng, The(d.location).lat>>]]
\* the row handleSubmit inserts into images
ImageRow(id, iss, url) == [id |-> id, issue_id |-> iss.id, url |-> url]

\* ------------------------------------------------------------- backend
Answer(ok, message, fault) == [ok |-> ok, message |-> message, fault |-> fault]
Outage == IF failures < MaxFailures THEN {Answer(FALSE, "network error", TRUE)} ELSE {}

\* issues: policy "Users can create their own issues", the check constraints, the key
InsertIssueAnswers(row) ==
  IF authUid # Some(row.user_id)
    THEN {Answer(FALSE, "new row violates row-level security policy", FALSE)}
  ELSE IF row.category \notin issues_category_check \/ row.priority \notin issues_priority_check
    THEN {Answer(FALSE, "new row violates check constraint", FALSE)}
  ELSE IF \E r \in issuesTbl : r.id = row.id
    THEN {Answer(FALSE, "duplicate key value", FALSE)}
  ELSE {Answer(TRUE, "", FALSE)} \cup Outage
\* storage.objects: policy "Authenticated users can upload issue images"
UploadAnswers(key) ==
  IF authUid = Null
    THEN {Answer(FALSE, "new row violates row-level security policy", FALSE)}
  ELSE IF \E o \in storage : o.name = key
    THEN {Answer(FALSE, "The resource already exists", FALSE)}
  ELSE {Answer(TRUE, "", FALSE)} \cup Outage
\* images: policy "Users can upload images for their issues"
InsertImageAnswers(row) ==
  IF ~ \E r \in issuesTbl : r.id = row.issue_id /\ Some(r.user_id) = authUid
    THEN {Answer(FALSE, "new row violates row-level security policy", FALSE)}
  ELSE IF \E r \in imagesTbl : r.id = row.id
    THEN {Answer(FALSE, "duplicate key value", FALSE)}
  ELSE {Answer(TRUE, "", FALSE)} \cup Outage
\* .order('created_at', { ascending: false }): ids are drawn in the order of creation,
\* so the newest row is the one with the greatest id
RECURSIVE ByCreatedAtDesc(_)
ByCreatedAtDesc(rows) ==
  IF rows = {} THEN <<>>
  ELSE LET newest == CHOOSE r \in rows : \A o \in rows : o.id <= r.id
       IN <<newest>> \o ByCreatedAtDesc(rows \ {newest})
\* issues: policy "Anyone can view issues"
SelectIssuesAnswers ==
  {[ok |-> TRUE, data |-> ByCreatedAtDesc(issuesTbl), message |-> "", fault |-> FALSE]}
    \cup (IF failures < MaxFailures
           THEN {[ok |-> FALSE, data |-> <<>>, message |-> "network error", fault |-> TRUE]}
           ELSE {})
\* the row as stored: status takes its default; the description column is nullable
StoredIssue(row) ==
  [id |-> row.id, title |-> row.title, description |-> Some(row.description), category |-> row.category,
   priority |-> row.priority, user_id |-> row.user_id, location |-> row.location, status |-> "open"]

Draft ==
  [title |-> title, description |-> description, category |-> category, priority |-> priority,
   location |-> location, images |-> images]
NoDraft ==
  [title |-> <<>>, description |-> <<>>, category |-> "", priority |-> "medium",
   location |-> Null, images |-> <<>>]

\* what IssueList returns: the skeleton while loading, else the controls with their
\* values, the count and the cards of filteredIssues, or the empty message
Rendering ==
  [refreshTrigger |-> refreshTrigger, loading |-> listLoading, issues |-> issues,
   searchTerm |-> searchTerm, statusFilter |-> statusFilter,
   categoryFilter |-> categoryFilter, priorityFilter |-> priorityFilter,
   view |-> filteredIssues]

\* IssueList and MapView as mounted: the first render is done, no effect has run yet
\* AppLayout once its effect has run: user and session null, loading true, the
\* listener subscribed and getSession called; the auth client holds the session of
\* the signed-in user, the first one it issued
AuthInfo(v, u) == [v |-> v, session |-> u]
InitLayout ==
  /\ session = Null /\ layoutUser = Null /\ layoutLoading = TRUE
  /\ client = AuthInfo(1, Some([user |-> "u1", token |-> 1]))
  /\ gs = [ph |-> "called", info |-> AuthInfo(0, Null)]
  /\ notices = <<>>
  /\ shown = [v |-> 0, notified |-> FALSE]
InitView ==
  /\ issues = <<>> /\ filteredIssues = <<>> /\ listLoading = TRUE
  /\ searchTerm = <<>> /\ statusFilter = "all" /\ categoryFilter = "all"
  /\ priorityFilter = "all"
  /\ mapIssues = <<>> /\ mapLoading = TRUE
  /\ effects = [listFetch |-> Null, filter |-> Null, mapFetch |-> Null]
  /\ screen = Rendering
  /\ fetches = <<>> /\ fetching = {} /\ responses = {}
  /\ second = Null /\ InitLayout

Init ==
  /\ loading = FALSE
  /\ title = <<>> /\ description = <<>> /\ category = "" /\ priority = "medium"
  /\ location = Null /\ images = <<>> /\ imagePreview = <<>>
  /\ readers = <<>>
  /\ pc = "idle" /\ sub = NoDraft /\ user = Null /\ issueId = 0 /\ issue = Null
  /\ i = 0 /\ fileName = Null
  /\ toasts = <<>> /\ calls = <<>> /\ inflight = {}
  /\ authUid = Some("u1") /\ issuesTbl = {} /\ imagesTbl = {} /\ storage = {}
  /\ nextUuid = 1 /\ nextFile = 1 /\ refreshTrigger = 0 /\ submits = 0 /\ failures = 0
  /\ InitView /\ second = Null /\ InitLayout

\* ---------------------------------------------------- the draft's controls
setTitle(v) ==
  /\ title' = v
  /\ UNCHANGED <<loading, description, category, priority, location, images, imagePreview,
                 readers, runVars, toasts, calls, inflight, backendVars, nextUuid, nextFile,
                 refreshTrigger, submits, failures, viewVars, second,
                 layoutVars>>
setDescription(v) ==
  /\ description' = v
  /\ UNCHANGED <<loading, title, category, priority, location, images, imagePreview,
                 readers, runVars, toasts, calls, inflight, backendVars, nextUuid, nextFile,
                 refreshTrigger, submits, failures, viewVars, second,
                 layoutVars>>
setCategory(v) ==
  /\ category' = v
  /\ UNCHANGED <<loading, title, description, priority, location, images, imagePreview,
                 readers, runVars, toasts, calls, inflight, backendVars, nextUuid, nextFile,
                 refreshTrigger, submits, failures, viewVars, second,
                 layoutVars>>
setPriority(v) ==
  /\ priority' = v
  /\ UNCHANGED <<loading, title, description, category, location, images, imagePreview,
                 readers, runVars, toasts, calls, inflight, backendVars, nextUuid, nextFile,
                 refreshTrigger, submits, failures, viewVars, second,
                 layoutVars>>
\* LocationSelector's onLocationSelect
setLocation(p) ==
  /\ location' = Some(p)
  /\ UNCHANGED <<loading, title, description, category, priority, images, imagePreview,
                 readers, runVars, toasts, calls, inflight, backendVars, nextUuid, nextFile,
                 refreshTrigger, submits, failures, viewVars, second,
                 layoutVars>>

\* (variant: the limit on the number of images is not checked)
handleImageUploadUnlimited(n) ==
  LET files == [k \in 1..n |-> FileAt(nextFile + k - 1)] IN
  /\ nextFile' = nextFile + n
  /\ images' = images \o files
  /\ readers' = IF n = 0 THEN readers
                ELSE Append(readers, [newPreviews |-> imagePreview, files |-> files,
                                      loading |-> 1..n])
  /\ UNCHANGED <<loading, title, description, category, priority, location, imagePreview,
                 runVars, toasts, calls, inflight, backendVars, nextUuid, refreshTrigger,
                 submits, failures, viewVars, second,
                 layoutVars>>
\* (variant: the files over the limit are dropped and the others are queued)
handleImageUploadTruncates(n) ==
  LET room == IF MaxImages - Len(images) < n THEN MaxImages - Len(images) ELSE n
      files == [k \in 1..room |-> FileAt(nextFile + k - 1)]
  IN
  /\ nextFile' = nextFile + n
  /\ images' = images \o files
  /\ readers' = IF room = 0 THEN readers
                ELSE Append(readers, [newPreviews |-> imagePreview, files |-> files,
                                      loading |-> 1..room])
  /\ toasts' = IF room < n THEN Append(toasts, TooManyImages) ELSE toasts
  /\ UNCHANGED <<loading, title, description, category, priority, location, imagePreview,
                 runVars, calls, inflight, backendVars, nextUuid, refreshTrigger, submits,
                 failures, viewVars, second,
                 layoutVars>>
\* the file input's onChange with n files: each accepted file gets a FileReader
\* that shares the handler's newPreviews array with the others of the event
handleImageUpload(n) ==
  LET files == [k \in 1..n |-> FileAt(nextFile + k - 1)] IN
  /\ nextFile' = nextFile + n
  /\ IF Len(files) + Len(images) > MaxImages
       THEN /\ toasts' = Append(toasts, TooManyImages)
            /\ UNCHANGED <<images, readers>>
       ELSE /\ images' = images \o files
            /\ readers' = IF n = 0 THEN readers
                          ELSE Append(readers, [newPreviews |-> imagePreview, files |-> files,
                                                loading |-> 1..n])
            /\ UNCHANGED toasts
  /\ UNCHANGED <<loading, title, description, category, priority, location, imagePreview,
                 runVars, calls, inflight, backendVars, nextUuid, refreshTrigger, submits,
                 failures, viewVars, second,
                 layoutVars>>

\* reader.onload of the k-th file of the e-th selection event still reading
readerOnload(e, k) ==
  /\ e \in DOMAIN readers
  /\ k \in readers[e].loading
  /\ LET r == readers[e]
         pushed == Append(r.newPreviews, DataUrl(r.files[k]))
         left == r.loading \ {k}
     IN /\ imagePreview' = pushed
        /\ readers' = IF left = {}
                        THEN SubSeq(readers, 1, e - 1) \o SubSeq(readers, e + 1, Len(readers))
                        ELSE [readers EXCEPT ![e] = [r EXCEPT !.newPreviews = pushed, !.loading = left]]
  /\ UNCHANGED <<loading, title, description, category, priority, location, images,
                 runVars, toasts, calls, inflight, backendVars, nextUuid, nextFile,
                 refreshTrigger, submits, failures, viewVars, second,
                 layoutVars>>

\* the remove button of the preview at index
removeImage(index) ==
  /\ index \in 0..(Len(imagePreview) - 1)
  /\ images' = FilterOut(images, index)
  /\ imagePreview' = FilterOut(imagePreview, index)
  /\ UNCHANGED <<loading, title, description, category, priority, location,
                 readers, runVars, toasts, calls, inflight, backendVars, nextUuid, nextFile,
                 refreshTrigger, submits, failures, viewVars, second,
                 layoutVars>>

\* --------------------------------------------------------- handleSubmit
\* if (!location)
MissingLocation(d) == d.location = Null
\* (variant: the category check is dropped)
MissingCategoryUnchecked(d) == FALSE
\* if (!category)
MissingCategory(d) == d.category = ""
\* (variant: the user check is dropped)
NotAuthenticatedUnchecked(u) == FALSE
\* if (!user) throw
NotAuthenticated(u) == u = Null
\* (variant: issueError is ignored)
IssueInsertFailedIgnored(a) == FALSE
\* if (issueError) throw issueError
IssueInsertFailed(a) == ~a.ok
\* if (images.length > 0 && issue)
HasImages(d, iss) == Len(d.images) > 0 /\ iss # Null
\* (variant: uploadError is ignored)
UploadFailedIgnored(a) == FALSE
\* if (uploadError) { ...; continue }
UploadFailed(a) == ~a.ok
\* (variant: the index advances by two)
NextIndexSkips(k, n) == k + 2
\* the for loop's i++, also after `continue`
NextIndex(k, n) == k + 1

\* (variant: the form is reset whenever the submission ends)
FailClearsDraft(message, log, fl) ==
  /\ toasts' = Append(toasts, FailedToReport(message))
  /\ loading' = FALSE
  /\ pc' = "idle"
  /\ calls' = log
  /\ inflight' = fl
  /\ title' = <<>> /\ description' = <<>> /\ category' = "" /\ priority' = "medium"
  /\ location' = Null /\ images' = <<>> /\ imagePreview' = <<>>
  /\ UNCHANGED refreshTrigger
\* (variant: the catch block shows nothing)
FailWithoutToast(message, log, fl) ==
  /\ UNCHANGED toasts
  /\ loading' = FALSE
  /\ pc' = "idle"
  /\ calls' = log
  /\ inflight' = fl
  /\ UNCHANGED <<draftVars, refreshTrigger>>
\* catch: the failure toast; finally: setLoading(false)
Fail(message, log, fl) ==
  /\ toasts' = Append(toasts, FailedToReport(message))
  /\ loading' = FALSE
  /\ pc' = "idle"
  /\ calls' = log
  /\ inflight' = fl
  /\ UNCHANGED <<draftVars, refreshTrigger>>

\* (variant: onSuccess is not called)
SucceedWithoutOnSuccess(log, fl) ==
  /\ toasts' = Append(toasts, Reported)
  /\ title' = <<>> /\ description' = <<>> /\ category' = "" /\ priority' = "medium"
  /\ location' = Null /\ images' = <<>> /\ imagePreview' = <<>>
  /\ UNCHANGED refreshTrigger
  /\ loading' = FALSE
  /\ pc' = "idle"
  /\ calls' = log
  /\ inflight' = fl
\* the success toast, the form reset, onSuccess() (AppLayout's handleSuccess);
\* finally: setLoading(false)
Succeed(log, fl) ==
  /\ toasts' = Append(toasts, Reported)
  /\ title' = <<>> /\ description' = <<>> /\ category' = "" /\ priority' = "medium"
  /\ location' = Null /\ images' = <<>> /\ imagePreview' = <<>>
  /\ refreshTrigger' = refreshTrigger + 1
  /\ loading' = FALSE
  /\ pc' = "idle"
  /\ calls' = log
  /\ inflight' = fl

\* (variant: the uploads of all remaining images are started together)
StartUploadFanOut(k, iss, log, fl) ==
  /\ fileName' = Some(StorageKey(The(iss), k, sub.images[k + 1]))
  /\ pc' = "upload"
  /\ calls' = log \o [j \in 1..(Len(sub.images) - k) |-> Ev("upload", "call", k + j - 1, "")]
  /\ inflight' = fl \cup {Req("upload", m) : m \in k..(Len(sub.images) - 1)}
  /\ UNCHANGED <<loading, draftVars, toasts, refreshTrigger>>
\* the loop body up to its first await: the upload of image k (counted from 0)
StartUpload(k, iss, log, fl) ==
  /\ fileName' = Some(StorageKey(The(iss), k, sub.images[k + 1]))
  /\ pc' = "upload"
  /\ calls' = Append(log, Ev("upload", "call", k, ""))
  /\ inflight' = Pending(fl, Req("upload", k))
  /\ UNCHANGED <<loading, draftVars, toasts, refreshTrigger>>

\* the loop test i < images.length, under the guard of line 130
Loop(k, iss, log, fl) ==
  /\ i' = k
  /\ IF HasImages(sub, iss) /\ k < Len(sub.images)
       THEN StartUpload(k, iss, log, fl)
       ELSE Succeed(log, fl) /\ UNCHANGED fileName

\* (variant: the upload error is thrown)
OnUploadErrorThrows(a, log, fl) == Fail(a.message, log, fl) /\ UNCHANGED <<i, fileName>>
\* console.warn('Image upload failed:', uploadError); continue
OnUploadError(a, log, fl) == Loop(NextIndex(i, Len(sub.images)), issue, log, fl)
\* if (imageError) console.warn('Image record creation failed:', imageError)
ImageInsertFailed(a) == ~a.ok
\* (variant: the loop is left at the first failed record)
OnImageErrorBreaks(a, log, fl) == Loop(Len(sub.images), issue, log, fl)
\* after the warning the loop goes on
OnImageError(a, log, fl) == Loop(NextIndex(i, Len(sub.images)), issue, log, fl)

\* (variant: the id is drawn once, when the form mounts)
newIssueIdOncePerMount(fresh) == 1
\* const issueId = crypto.randomUUID(), given the next value the generator yields
newIssueId(fresh) == fresh

\* the submit event: validation, setLoading(true), and the call of getUser; at most
\* `limit` submissions pass validation in one run
submitEvent(limit) ==
  /\ pc = "idle"
  /\ IF MissingLocation(Draft)
       THEN /\ toasts' = <<LocationRequired>>
            /\ calls' = <<>>
            /\ UNCHANGED <<loading, runVars, inflight, submits>>
     ELSE IF MissingCategory(Draft)
       THEN /\ toasts' = <<CategoryRequired>>
            /\ calls' = <<>>
            /\ UNCHANGED <<loading, runVars, inflight, submits>>
     ELSE /\ submits < limit
          /\ submits' = submits + 1
          /\ toasts' = <<>>
          /\ loading' = TRUE
          /\ sub' = Draft
          /\ user' = Null /\ issueId' = 0 /\ issue' = Null /\ i' = 0 /\ fileName' = Null
          /\ pc' = "getUser"
          /\ calls' = <<Ev("getUser", "call", -1, "")>>
          /\ inflight' = Pending(inflight, Req("getUser", -1))
  /\ UNCHANGED <<draftVars, readers, backendVars, nextUuid, nextFile, refreshTrigger, failures,
                 viewVars, second,
                 layoutVars>>

handleSubmit == submitEvent(MaxSubmits)

\* supabase.auth.getUser(): the signed-in user, or none (also when the call fails)
GetUserAnswers ==
  {[user |-> authUid, fault |-> FALSE]}
    \cup (IF failures < MaxFailures THEN {[user |-> Null, fault |-> TRUE]} ELSE {})

\* getUser settles; crypto.randomUUID(); the call of the issue insert
getUserSettles ==
  /\ pc = "getUser"
  /\ \E a \in GetUserAnswers :
       LET log == Append(calls, Ev("getUser", IF a.user = Null THEN "none" ELSE "ok", -1, ""))
           fl == Settled(inflight, Req("getUser", -1))
       IN /\ failures' = IF a.fault THEN failures + 1 ELSE failures
          /\ user' = a.user
          /\ IF NotAuthenticated(a.user)
               THEN /\ Fail("User not authenticated", log, fl)
                    /\ UNCHANGED <<issueId, nextUuid>>
               ELSE /\ issueId' = newIssueId(nextUuid)
                    /\ nextUuid' = nextUuid + 1
                    /\ pc' = "insertIssue"
                    /\ calls' = Append(log, Ev("insertIssue", "call", -1, ""))
                    /\ inflight' = Pending(fl, Req("insertIssue", -1))
                    /\ UNCHANGED <<loading, draftVars, toasts, refreshTrigger>>
  /\ UNCHANGED <<readers, sub, issue, i, fileName, backendVars, nextFile, submits, viewVars, second,
                 layoutVars>>

\* the issue insert settles; on success the image loop starts
insertIssueSettles ==
  /\ pc = "insertIssue"
  /\ LET row == IssueRow(issueId, sub, The(user)) IN
     \E a \in InsertIssueAnswers(row) :
       LET log == Append(calls, Ev("insertIssue", IF a.ok THEN "ok" ELSE "error", -1, a.message))
           fl == Settled(inflight, Req("insertIssue", -1))
           data == IF a.ok THEN Some(StoredIssue(row)) ELSE Null
       IN /\ failures' = IF a.fault THEN failures + 1 ELSE failures
          /\ issuesTbl' = issuesTbl \cup data
          /\ issue' = data
          /\ IF IssueInsertFailed(a)
               THEN Fail(a.message, log, fl) /\ UNCHANGED <<i, fileName>>
               ELSE Loop(0, data, log, fl)
  /\ UNCHANGED <<readers, sub, user, issueId, authUid, imagesTbl, storage, nextUuid, nextFile,
                 submits, viewVars, second,
                 layoutVars>>

\* the upload of image i settles; on success getPublicUrl, crypto.randomUUID()
\* and the call of the image-record insert
uploadSettles ==
  /\ pc = "upload"
  /\ \E a \in UploadAnswers(The(fileName)) :
       LET log == Append(calls, Ev("upload", IF a.ok THEN "ok" ELSE "error", i, a.message))
           fl == Settled(inflight, Req("upload", i))
       IN /\ failures' = IF a.fault THEN failures + 1 ELSE failures
          /\ storage' = IF a.ok
                          THEN storage \cup {[name |-> The(fileName), file |-> sub.images[i + 1]]}
                          ELSE storage
          /\ IF UploadFailed(a)
               THEN OnUploadError(a, log, fl) /\ UNCHANGED nextUuid
               ELSE /\ nextUuid' = nextUuid + 1
                    /\ pc' = "insertImage"
                    /\ calls' = Append(log, Ev("insertImage", "call", i, ""))
                    /\ inflight' = Pending(fl, Req("insertImage", i))
                    /\ UNCHANGED <<loading, draftVars, toasts, refreshTrigger, i, fileName>>
  /\ UNCHANGED <<readers, sub, user, issueId, issue, authUid, issuesTbl, imagesTbl, nextFile,
                 submits, viewVars, second,
                 layoutVars>>

\* the image-record insert of image i settles; an error is only logged
insertImageSettles ==
  /\ pc = "insertImage"
  /\ LET row == ImageRow(nextUuid - 1, The(issue), PublicUrl(The(fileName))) IN
     \E a \in InsertImageAnswers(row) :
       LET log == Append(calls, Ev("insertImage", IF a.ok THEN "ok" ELSE "error", i, a.message))
           fl == Settled(inflight, Req("insertImage", i))
       IN /\ failures' = IF a.fault THEN failures + 1 ELSE failures
          /\ imagesTbl' = IF a.ok THEN imagesTbl \cup {row} ELSE imagesTbl
          /\ IF ImageInsertFailed(a)
               THEN OnImageError(a, log, fl)
               ELSE Loop(NextIndex(i, Len(sub.images)), issue, log, fl)
  /\ UNCHANGED <<readers, sub, user, issueId, issue, authUid, issuesTbl, storage, nextUuid,
                 nextFile, submits, viewVars, second,
                 layoutVars>>

\* ------------------------------------- a submit event while one is in flight
\* LocationSelector renders <Button variant="outline" size="sm"> twice with no type
\* attribute, and IssueForm renders LocationSelector inside <form onSubmit=
\* {handleSubmit}>: a click on either is a submit event of the form, and loading
\* does not disable them. This is the click on the one without onClick while an
\* invocation of handleSubmit is in flight: handleSubmit runs again, on the draft
\* as it is then; `second` is that invocation's position, snapshot, user and id.
\* (With no invocation in flight the click is the submit event above. The draft
\* has no image here.)
locationButtonSubmits ==
  /\ pc # "idle" /\ second = Null
  /\ images = <<>>
  /\ IF MissingLocation(Draft)
       THEN /\ toasts' = Append(toasts, LocationRequired)
            /\ UNCHANGED <<loading, second>>
     ELSE IF MissingCategory(Draft)
       THEN /\ toasts' = Append(toasts, CategoryRequired)
            /\ UNCHANGED <<loading, second>>
     ELSE /\ loading' = TRUE
          /\ second' = Some([pc |-> "getUser", sub |-> Draft, user |-> Null, issueId |-> 0])
          /\ UNCHANGED toasts
  /\ UNCHANGED <<draftVars, readers, runVars, calls, inflight, backendVars, nextUuid,
                 nextFile, refreshTrigger, submits, failures, viewVars, layoutVars>>
\* catch and finally of that invocation
secondFails(message) ==
  /\ toasts' = Append(toasts, FailedToReport(message))
  /\ loading' = FALSE
  /\ UNCHANGED <<draftVars, refreshTrigger>>
\* its getUser settles: the throw, or randomUUID and the call of the issue insert
secondGetUserSettles ==
  /\ second # Null /\ The(second).pc = "getUser"
  /\ \E a \in GetUserAnswers :
       /\ failures' = IF a.fault THEN failures + 1 ELSE failures
       /\ IF NotAuthenticated(a.user)
            THEN /\ secondFails("User not authenticated")
                 /\ second' = Some([The(second) EXCEPT !.pc = "done"])
                 /\ UNCHANGED nextUuid
            ELSE /\ second' = Some([The(second) EXCEPT !.pc = "insertIssue", !.user = a.user,
                                                       !.issueId = newIssueId(nextUuid)])
                 /\ nextUuid' = nextUuid + 1
                 /\ UNCHANGED <<loading, draftVars, toasts, refreshTrigger>>
  /\ UNCHANGED <<readers, runVars, calls, inflight, backendVars, nextFile, submits, viewVars,
                 layoutVars>>
\* its issue insert settles: the throw, or (no image) the success toast, the reset
\* and onSuccess
secondInsertIssueSettles ==
  /\ second # Null /\ The(second).pc = "insertIssue"
  /\ LET row == IssueRow(The(second).issueId, The(second).sub, The(The(second).user)) IN
     \E a \in InsertIssueAnswers(row) :
       /\ failures' = IF a.fault THEN failures + 1 ELSE failures
       /\ issuesTbl' = issuesTbl \cup (IF a.ok THEN Some(StoredIssue(row)) ELSE Null)
       /\ IF IssueInsertFailed(a)
            THEN secondFails(a.message)
            ELSE /\ toasts' = Append(toasts, Reported)
                 /\ title' = <<>> /\ description' = <<>> /\ category' = ""
                 /\ priority' = "medium" /\ location' = Null /\ images' = <<>>
                 /\ imagePreview' = <<>>
                 /\ refreshTrigger' = refreshTrigger + 1
                 /\ loading' = FALSE
  /\ second' = Some([The(second) EXCEPT !.pc = "done"])
  /\ UNCHANGED <<readers, runVars, calls, inflight, authUid, imagesTbl, storage, nextUuid,
                 nextFile, submits, viewVars, layoutVars>>

\* ------------------------------------------------------ the identity provider
\* the session ends at the provider (expiry, revocation, sign-out elsewhere); a new
\* sign-in goes through AuthPage, which replaces this form
sessionEnds ==
  /\ authUid # Null
  /\ authUid' = Null
  /\ UNCHANGED <<loading, draftVars, readers, runVars, toasts, calls, inflight,
                 issuesTbl, imagesTbl, storage, nextUuid, nextFile, refreshTrigger, submits,
                 failures, viewVars, second,
                 layoutVars>>

\* ------------------------------------------------ IssueList and MapView
\* String.prototype.toLowerCase, on the letters the texts here are made of
toLowerCase(t) ==
  [k \in DOMAIN t |-> CASE t[k] = "A" -> "a" [] t[k] = "B" -> "b" [] t[k] = "D" -> "d"
                         [] t[k] = "T" -> "t" [] OTHER -> t[k]]
\* String.prototype.includes
includes(t, part) ==
  \E k \in 0..(Len(t) - Len(part)) : SubSeq(t, k + 1, k + Len(part)) = part
\* (variant: the case of the letters counts)
matchesSearchCaseSensitive(iss, term) ==
  \/ includes(iss.title, term)
  \/ iss.description # Null /\ includes(The(iss.description), term)
\* the predicate of the search filter; description?. of a null description is undefined
matchesSearch(iss, term) ==
  \/ includes(toLowerCase(iss.title), toLowerCase(term))
  \/ iss.description # Null /\ includes(toLowerCase(The(iss.description)), toLowerCase(term))
\* (variant: the status filter is applied even when it is 'all')
statusActiveAlways(v) == TRUE
\* if (statusFilter !== 'all'), and so for the category and the priority
statusActive(v) == v # "all"
\* the body of the filter effect: `filtered`, as handed to setFilteredIssues
filtered(src, term, status, cat, pri) ==
  LET f1 == IF term # <<>> THEN SelectSeq(src, LAMBDA x : matchesSearch(x, term)) ELSE src
      f2 == IF statusActive(status) THEN SelectSeq(f1, LAMBDA x : x.status = status) ELSE f1
      f3 == IF cat # "all" THEN SelectSeq(f2, LAMBDA x : x.category = cat) ELSE f2
      f4 == IF pri # "all" THEN SelectSeq(f3, LAMBDA x : x.priority = pri) ELSE f3
  IN f4
\* the dependency array of the filter effect
FilterDeps == <<issues, searchTerm, statusFilter, categoryFilter, priorityFilter>>
\* (variant: the effect does not depend on refreshTrigger and runs on mount only)
RefreshDepsNone(n) == Some(0)
\* the dependency array [refreshTrigger] of the two fetch effects
RefreshDeps(n) == Some(n)

\* the tree is committed and its effects have run
Committed == screen = Rendering
EffectsDone ==
  /\ effects.filter = Some(FilterDeps)
  /\ effects.listFetch = RefreshDeps(refreshTrigger)
  /\ effects.mapFetch = RefreshDeps(refreshTrigger)

\* the renderer commits the tree: IssueList shows its current state
render ==
  /\ screen # Rendering
  /\ screen' = Rendering
  /\ UNCHANGED <<formVars, toasts, backendVars, refreshTrigger, failures, listVars, mapVars,
                 effects, fetches, fetching, responses, second,
                 layoutVars>>

\* useEffect(..., [issues, searchTerm, statusFilter, categoryFilter, priorityFilter])
filterEffect ==
  /\ Committed
  /\ effects.filter # Some(FilterDeps)
  /\ filteredIssues' = filtered(issues, searchTerm, statusFilter, categoryFilter, priorityFilter)
  /\ effects' = [effects EXCEPT !.filter = Some(FilterDeps)]
  /\ UNCHANGED <<formVars, toasts, backendVars, refreshTrigger, failures, issues, listLoading,
                 searchTerm, statusFilter, categoryFilter, priorityFilter, mapVars, screen,
                 fetches, fetching, responses, second,
                 layoutVars>>

\* the search box and the three filter Selects
setSearchTerm(v) ==
  /\ searchTerm' = v
  /\ UNCHANGED <<formVars, toasts, backendVars, refreshTrigger, failures, issues, filteredIssues,
                 listLoading, statusFilter, categoryFilter, priorityFilter, mapVars, effects,
                 screen, fetches, fetching, responses, second,
                 layoutVars>>
setStatusFilter(v) ==
  /\ statusFilter' = v
  /\ UNCHANGED <<formVars, toasts, backendVars, refreshTrigger, failures, issues, filteredIssues,
                 listLoading, searchTerm, categoryFilter, priorityFilter, mapVars, effects,
                 screen, fetches, fetching, responses, second,
                 layoutVars>>
setCategoryFilter(v) ==
  /\ categoryFilter' = v
  /\ UNCHANGED <<formVars, toasts, backendVars, refreshTrigger, failures, issues, filteredIssues,
                 listLoading, searchTerm, statusFilter, priorityFilter, mapVars, effects,
                 screen, fetches, fetching, responses, second,
                 layoutVars>>
setPriorityFilter(v) ==
  /\ priorityFilter' = v
  /\ UNCHANGED <<formVars, toasts, backendVars, refreshTrigger, failures, issues, filteredIssues,
                 listLoading, searchTerm, statusFilter, categoryFilter, mapVars, effects,
                 screen, fetches, fetching, responses, second,
                 layoutVars>>
\* (variant: the priority filter is not cleared)
clearFiltersKeepsPriority ==
  /\ searchTerm' = <<>> /\ statusFilter' = "all" /\ categoryFilter' = "all"
  /\ UNCHANGED <<formVars, toasts, backendVars, refreshTrigger, failures, issues, filteredIssues,
                 listLoading, priorityFilter, mapVars, effects, screen, fetches, fetching, responses, second,
                 layoutVars>>
\* the two Clear Filters buttons: beside the Selects, and under the empty message
clearFilters ==
  /\ searchTerm' = <<>> /\ statusFilter' = "all" /\ categoryFilter' = "all"
  /\ priorityFilter' = "all"
  /\ UNCHANGED <<formVars, toasts, backendVars, refreshTrigger, failures, issues, filteredIssues,
                 listLoading, mapVars, effects, screen, fetches, fetching, responses, second,
                 layoutVars>>

\* one entry of the log of fetches: the call of fetchIssues by a component, or the
\* component taking the answer to the call at entry `call`
FetchEv(by, ph, trigger, call) == [by |-> by, ph |-> ph, trigger |-> trigger, call |-> call]
Answered(j) == {a \in responses : a.call = j}
\* the backend runs the select of call j: the rows are those of the table at this
\* moment, whenever the response reaches the component
selectIssuesAnswered(j) ==
  /\ j \in fetching
  /\ Answered(j) = {}
  /\ \E a \in SelectIssuesAnswers :
       /\ failures' = IF a.fault THEN failures + 1 ELSE failures
       /\ responses' = responses \cup {[call |-> j, ok |-> a.ok, data |-> a.data,
                                        message |-> a.message]}
  /\ UNCHANGED <<formVars, toasts, backendVars, refreshTrigger, listVars, mapVars, effects,
                 screen, fetches, fetching, second,
                 layoutVars>>

\* setIssues(data || []) in the try block; the catch block does not touch the collection
issuesAfterFetchClearsOnError(a, was) == IF a.ok THEN a.data ELSE <<>>
issuesAfterFetch(a, was) == IF a.ok THEN a.data ELSE was
\* finally { setLoading(false) }
loadingAfterFetchOnSuccessOnly(a, was) == IF a.ok THEN FALSE ELSE was
loadingAfterFetch(a, was) == FALSE

\* useEffect(() => { fetchIssues() }, [refreshTrigger]) of IssueList, up to the await
listFetchEffect ==
  /\ Committed
  /\ effects.listFetch # RefreshDeps(refreshTrigger)
  /\ effects' = [effects EXCEPT !.listFetch = RefreshDeps(refreshTrigger)]
  /\ fetches' = Append(fetches, FetchEv("list", "call", refreshTrigger, Len(fetches) + 1))
  /\ fetching' = fetching \cup {Len(fetches) + 1}
  /\ UNCHANGED <<formVars, toasts, backendVars, refreshTrigger, failures, listVars, mapVars,
                 screen, responses, second,
                 layoutVars>>
\* IssueList's fetchIssues after the await: the answer to call j reaches the list
listFetchSettles(j) ==
  /\ j \in fetching
  /\ fetches[j].by = "list"
  /\ \E a \in Answered(j) :
       /\ issues' = issuesAfterFetch(a, issues)
       /\ toasts' = IF a.ok THEN toasts ELSE Append(toasts, FailedToLoad(a.message))
       /\ fetches' = Append(fetches, FetchEv("list", IF a.ok THEN "ok" ELSE "error",
                                             fetches[j].trigger, j))
       /\ listLoading' = loadingAfterFetch(a, listLoading)
  /\ fetching' = fetching \ {j}
  /\ UNCHANGED <<formVars, backendVars, refreshTrigger, failures, filteredIssues, searchTerm,
                 statusFilter, categoryFilter, priorityFilter, mapVars, effects, screen,
                 responses, second,
                 layoutVars>>

\* useEffect(() => { fetchIssues() }, [refreshTrigger]) of MapView, up to the await
mapFetchEffect ==
  /\ Committed
  /\ effects.mapFetch # RefreshDeps(refreshTrigger)
  /\ effects' = [effects EXCEPT !.mapFetch = RefreshDeps(refreshTrigger)]
  /\ fetches' = Append(fetches, FetchEv("map", "call", refreshTrigger, Len(fetches) + 1))
  /\ fetching' = fetching \cup {Len(fetches) + 1}
  /\ UNCHANGED <<formVars, toasts, backendVars, refreshTrigger, failures, listVars, mapVars,
                 screen, responses, second,
                 layoutVars>>
\* MapView's fetchIssues after the await
mapFetchSettles(j) ==
  /\ j \in fetching
  /\ fetches[j].by = "map"
  /\ \E a \in Answered(j) :
       /\ mapIssues' = issuesAfterFetch(a, mapIssues)
       /\ toasts' = IF a.ok THEN toasts ELSE Append(toasts, FailedToLoad(a.message))
       /\ fetches' = Append(fetches, FetchEv("map", IF a.ok THEN "ok" ELSE "error",
                                             fetches[j].trigger, j))
       /\ mapLoading' = loadingAfterFetch(a, mapLoading)
  /\ fetching' = fetching \ {j}
  /\ UNCHANGED <<formVars, backendVars, refreshTrigger, failures, listVars, effects, screen,
                 responses, second,
                 layoutVars>>

\* MapView's Marker for an issue: const [lng, lat] = coords.coordinates, position
\* [lat, lng]; no marker for an issue without a Point
markerPositionFirstIsLat(iss) ==
  IF iss.location.type # "Point" THEN Null
  ELSE Some(<<iss.location.coordinates[1], iss.location.coordinates[2]>>)
markerPosition(iss) ==
  IF iss.location.type # "Point" THEN Null
  ELSE LET lng == iss.location.coordinates[1]
           lat == iss.location.coordinates[2]
       IN Some(<<lat, lng>>)
\* MapController's effect for the selected issue: map.setView([lat, lng], 16)
setView(selectedIssue) ==
  IF selectedIssue.location.type # "Point" THEN Null
  ELSE LET lng == selectedIssue.location.coordinates[1]
           lat == selectedIssue.location.coordinates[2]
       IN Some([center |-> <<lat, lng>>, zoom |-> 16])

\* AppLayout's handleSuccess, the onSuccess of IssueForm
handleSuccess ==
  /\ refreshTrigger' = refreshTrigger + 1
  /\ UNCHANGED <<formVars, toasts, backendVars, failures, viewVars, second,
                 layoutVars>>

\* someone else's report reaches the issues table
issueArrives(row) ==
  /\ \A r \in issuesTbl : r.id < row.id
  /\ issuesTbl' = issuesTbl \cup {row}
  /\ UNCHANGED <<formVars, toasts, authUid, imagesTbl, storage, refreshTrigger, failures,
                 viewVars, second,
                 layoutVars>>

\* ------------------------------------------------------------- AppLayout: auth
\* session?.user ?? null
UserOf(s) == IF s = Null THEN Null ELSE Some(The(s).user)
\* the auth client answers the getSession call of the effect with the session it
\* holds at that moment; the promise resolves then, its callback runs later
getSessionReads ==
  /\ gs.ph = "called"
  /\ gs' = [ph |-> "read", info |-> client]
  /\ UNCHANGED <<formVars, toasts, backendVars, refreshTrigger, failures, viewVars, second,
                 session, layoutUser, layoutLoading, client, notices, shown>>
\* supabase.auth.getSession().then(({ data: { session } }) => { ... })
getSessionThen ==
  /\ gs.ph = "read"
  /\ session' = gs.info.session
  /\ layoutUser' = UserOf(gs.info.session)
  /\ layoutLoading' = FALSE
  /\ gs' = [gs EXCEPT !.ph = "done"]
  /\ shown' = [shown EXCEPT !.v = gs.info.v]
  /\ UNCHANGED <<formVars, toasts, backendVars, refreshTrigger, failures, viewVars, second,
                 client, notices>>
\* the session of the auth client changes (a token refresh, a sign-out here or in
\* another tab, a sign-in) and the client queues the notification of its listeners
authStateChanges(event) ==
  /\ client.v <= MaxAuthEvents
  /\ \/ event = "TOKEN_REFRESHED" /\ client.session # Null
     \/ event = "SIGNED_OUT" /\ client.session # Null
     \/ event = "SIGNED_IN" /\ client.session = Null
  /\ LET next == AuthInfo(client.v + 1,
                          IF event = "SIGNED_OUT" THEN Null
                          ELSE Some([user |-> "u1", token |-> client.v + 1]))
     IN /\ client' = next
        /\ notices' = Append(notices, next)
  /\ UNCHANGED <<formVars, toasts, backendVars, refreshTrigger, failures, viewVars, second,
                 session, layoutUser, layoutLoading, gs, shown>>
\* the callback given to supabase.auth.onAuthStateChange, for the next notification
onAuthStateChange ==
  /\ notices # <<>>
  /\ session' = Head(notices).session
  /\ layoutUser' = UserOf(Head(notices).session)
  /\ layoutLoading' = FALSE
  /\ notices' = Tail(notices)
  /\ shown' = [v |-> Head(notices).v, notified |-> TRUE]
  /\ UNCHANGED <<formVars, toasts, backendVars, refreshTrigger, failures, viewVars, second,
                 client, gs>>
\* AppLayout's handleSignOut, which Header calls once supabase.auth.signOut() has
\* settled
handleSignOut ==
  /\ client.session = Null
  /\ layoutUser # Null
  /\ layoutUser' = Null
  /\ session' = Null
  /\ shown' = [shown EXCEPT !.v = client.v]
  /\ UNCHANGED <<formVars, toasts, backendVars, refreshTrigger, failures, viewVars, second,
                 layoutLoading, client, gs, notices>>

\* --------------------------------------------------------- specification
\* Spec: the user fills in the draft, selects images and submits. The user acts
\* between submissions, while one more may follow, and file reads are short next to
\* the user's pace: no read is pending when the user acts. Removing images is not
\* part of this scenario.
Editing == pc = "idle" /\ submits < MaxSubmits /\ readers = <<>>

Next ==
  \/ \E v \in Titles : Editing /\ setTitle(v)
  \/ \E v \in Descriptions : Editing /\ setDescription(v)
  \/ \E v \in CategoryChoices : Editing /\ setCategory(v)
  \/ \E v \in PriorityChoices : Editing /\ setPriority(v)
  \/ \E p \in Points : Editing /\ setLocation(p)
  \/ \E n \in 1..MaxPick : Editing /\ nextFile + n <= MaxFiles + 1 /\ handleImageUpload(n)
  \/ \E e \in 1..MaxFiles, k \in 1..MaxPick : readerOnload(e, k)
  \/ readers = <<>> /\ handleSubmit
  \/ getUserSettles
  \/ insertIssueSettles
  \/ uploadSettles
  \/ insertImageSettles
  \/ sessionEnds

Spec == Init /\ [][Next]_vars

\* SpecCategory: the category state is a string and handleSubmit reads whatever it
\* holds; here it is set to any string, with no image selected.
NextCategory ==
  \/ \E v \in Titles : Editing /\ setTitle(v)
  \/ \E v \in Descriptions : Editing /\ setDescription(v)
  \/ \E v \in CategoryStrings : Editing /\ setCategory(v)
  \/ \E p \in Points : Editing /\ setLocation(p)
  \/ handleSubmit
  \/ getUserSettles
  \/ insertIssueSettles
  \/ sessionEnds

SpecCategory == Init /\ [][NextCategory]_vars

\* SpecImages: a draft with its location and category chosen; the user selects and
\* removes images and submits, and the backend answers without outages.
InitImages ==
  /\ loading = FALSE
  /\ title = <<"t">> /\ description = <<>> /\ category = "pothole" /\ priority = "medium"
  /\ location = Some([lat |-> 1, lng |-> 2]) /\ images = <<>> /\ imagePreview = <<>>
  /\ readers = <<>>
  /\ pc = "idle" /\ sub = NoDraft /\ user = Null /\ issueId = 0 /\ issue = Null
  /\ i = 0 /\ fileName = Null
  /\ toasts = <<>> /\ calls = <<>> /\ inflight = {}
  /\ authUid = Some("u1") /\ issuesTbl = {} /\ imagesTbl = {} /\ storage = {}
  /\ nextUuid = 1 /\ nextFile = 1 /\ refreshTrigger = 0 /\ submits = 0
  /\ failures = MaxFailures
  /\ InitView /\ second = Null /\ InitLayout

NextImages ==
  \/ \E n \in PickSizes : Editing /\ nextFile + n <= MaxOffered + 1 /\ handleImageUpload(n)
  \/ \E k \in 1..MaxImages : readerOnload(1, k)
  \/ \E index \in 0..(MaxImages - 1) : Editing /\ removeImage(index)
  \/ readers = <<>> /\ handleSubmit
  \/ getUserSettles
  \/ insertIssueSettles
  \/ uploadSettles
  \/ insertImageSettles

SpecImages == InitImages /\ [][NextImages]_vars

\* SpecSelection: on a new form the user only selects images, one selection event
\* after the other, each of one file up to one more than the form takes.
NextSelection ==
  \/ \E n \in 1..(MaxImages + 1) : Editing /\ nextFile + n <= MaxOffered + 1 /\ handleImageUpload(n)
  \/ \E k \in 1..MaxImages : readerOnload(1, k)

SpecSelection == Init /\ [][NextSelection]_vars

\* SpecRefresh: the form, the list and the map together. The draft has its location
\* and category chosen; the user changes it and submits while nothing is loading and
\* the screen is up to date, and the backend answers without outages.
Quiet == Committed /\ EffectsDone
AtRest == Editing /\ Quiet /\ fetching = {}
NextRefresh ==
  \/ \E v \in Descriptions : AtRest /\ setDescription(v)
  \/ \E v \in PriorityChoices : AtRest /\ setPriority(v)
  \/ \E n \in 1..MaxPick : AtRest /\ nextFile + n <= MaxFiles + 1 /\ handleImageUpload(n)
  \/ \E e \in 1..MaxFiles, k \in 1..MaxPick : readerOnload(e, k)
  \/ AtRest /\ handleSubmit
  \/ getUserSettles
  \/ insertIssueSettles
  \/ uploadSettles
  \/ insertImageSettles
  \/ render
  \/ filterEffect
  \/ listFetchEffect
  \/ mapFetchEffect
  \/ \E j \in fetching : selectIssuesAnswered(j)
  \/ \E j \in fetching : listFetchSettles(j)
  \/ \E j \in fetching : mapFetchSettles(j)

SpecRefresh == InitImages /\ [][NextRefresh]_vars

\* SpecList: the list, just mounted, over a table that holds some issues and gets
\* more; submissions succeed elsewhere in the layout; the backend may fail. The user
\* acts when the list is loaded and the screen is up to date.
InitList ==
  /\ loading = FALSE
  /\ title = <<>> /\ description = <<>> /\ category = "" /\ priority = "medium"
  /\ location = Null /\ images = <<>> /\ imagePreview = <<>>
  /\ readers = <<>>
  /\ pc = "idle" /\ sub = NoDraft /\ user = Null /\ issueId = 0 /\ issue = Null
  /\ i = 0 /\ fileName = Null
  /\ toasts = <<>> /\ calls = <<>> /\ inflight = {}
  /\ authUid = Some("u1") /\ imagesTbl = {} /\ storage = {}
  /\ issuesTbl \in {t \in SUBSET SampleIssues : Cardinality(t) < MaxIssues}
  /\ nextUuid = 1 /\ nextFile = 1 /\ refreshTrigger = 0 /\ submits = 0 /\ failures = 0
  /\ InitView /\ second = Null /\ InitLayout

ListAtRest ==
  /\ Committed /\ fetching = {}
  /\ effects.filter = Some(FilterDeps) /\ effects.listFetch = RefreshDeps(refreshTrigger)
NextList ==
  \/ \E v \in SearchTerms : ListAtRest /\ setSearchTerm(v)
  \/ \E v \in StatusFilters : ListAtRest /\ setStatusFilter(v)
  \/ \E v \in CategoryFilters : ListAtRest /\ setCategoryFilter(v)
  \/ \E v \in PriorityFilters : ListAtRest /\ setPriorityFilter(v)
  \/ ListAtRest /\ clearFilters
  \/ render
  \/ filterEffect
  \/ listFetchEffect
  \/ \E j \in fetching : selectIssuesAnswered(j)
  \/ \E j \in fetching : listFetchSettles(j)
  \/ refreshTrigger < MaxSubmits /\ handleSuccess
  \/ \E row \in SampleIssues : Cardinality(issuesTbl) < MaxIssues /\ issueArrives(row)

SpecList == InitList /\ [][NextList]_vars

\* SpecFetch: a component that fetches, the list or the map, just mounted over a
\* table that holds some issues and gets more; submissions succeed elsewhere in the
\* layout at any moment, also while a fetch is in flight; the backend may fail and
\* responses arrive in any order. The filter criteria stay as mounted. The two
\* components share no state, and a behaviour follows one of them.
Watching(by) == \A k \in DOMAIN fetches : fetches[k].by = by
NextFetch ==
  \/ render
  \/ filterEffect
  \/ Watching("list") /\ listFetchEffect
  \/ Watching("map") /\ mapFetchEffect
  \/ \E j \in fetching : selectIssuesAnswered(j)
  \/ \E j \in fetching : listFetchSettles(j)
  \/ \E j \in fetching : mapFetchSettles(j)
  \/ refreshTrigger < MaxSubmits /\ handleSuccess
  \/ \E row \in SampleIssues : Cardinality(issuesTbl) < MaxIssues /\ issueArrives(row)

SpecFetch == InitList /\ [][NextFetch]_vars

\* SpecOverlap: the draft has its title, category and location and no image; the
\* user changes it, submits with the submit control, and clicks the button beside
\* "Use My Location" while the submission is in flight; the backend may fail and the
\* session may end.
InitOverlap ==
  /\ loading = FALSE
  /\ title = <<"t">> /\ description = <<>> /\ category = "pothole" /\ priority = "medium"
  /\ location = Some([lat |-> 1, lng |-> 2]) /\ images = <<>> /\ imagePreview = <<>>
  /\ readers = <<>>
  /\ pc = "idle" /\ sub = NoDraft /\ user = Null /\ issueId = 0 /\ issue = Null
  /\ i = 0 /\ fileName = Null
  /\ toasts = <<>> /\ calls = <<>> /\ inflight = {}
  /\ authUid = Some("u1") /\ issuesTbl = {} /\ imagesTbl = {} /\ storage = {}
  /\ nextUuid = 1 /\ nextFile = 1 /\ refreshTrigger = 0 /\ submits = 0 /\ failures = 0
  /\ InitView /\ second = Null /\ InitLayout
NextOverlap ==
  \/ \E v \in Descriptions : Editing /\ setDescription(v)
  \/ \E v \in PriorityChoices : Editing /\ setPriority(v)
  \/ handleSubmit
  \/ getUserSettles
  \/ insertIssueSettles
  \/ locationButtonSubmits
  \/ secondGetUserSettles
  \/ secondInsertIssueSettles
  \/ sessionEnds

SpecOverlap == InitOverlap /\ [][NextOverlap]_vars

\* SpecAuth: the layout, just mounted by a signed-in user, with getSession called;
\* the session changes at the auth client, and the response to getSession and the
\* notifications reach the layout in any order.
NextAuth ==
  \/ getSessionReads
  \/ getSessionThen
  \/ \E event \in {"TOKEN_REFRESHED", "SIGNED_OUT", "SIGNED_IN"} : authStateChanges(event)
  \/ onAuthStateChange
  \/ handleSignOut

SpecAuth == Init /\ [][NextAuth]_vars

\* SpecRetry: the user fills in the draft, with any string as category and no image,
\* and submits again after a failure or a success.
NextRetry ==
  \/ \E v \in Titles : pc = "idle" /\ submits < MaxAttempts /\ setTitle(v)
  \/ \E v \in CategoryStrings : pc = "idle" /\ submits < MaxAttempts /\ setCategory(v)
  \/ \E p \in Points : pc = "idle" /\ submits < MaxAttempts /\ setLocation(p)
  \/ submitEvent(MaxAttempts)
  \/ getUserSettles
  \/ insertIssueSettles

SpecRetry == Init /\ [][NextRetry]_vars

\* SpecFilter: the list holds any issues, in any order; the user types a search text,
\* picks filters and clears them, acting on what is on the screen once the effects
\* have run.
Sources ==
  UNION {{src \in [1..n -> SampleIssues] : \A a, b \in 1..n : a # b => src[a] # src[b]} :
           n \in 0..MaxIssues}
InitFilter ==
  /\ loading = FALSE
  /\ title = <<>> /\ description = <<>> /\ category = "" /\ priority = "medium"
  /\ location = Null /\ images = <<>> /\ imagePreview = <<>>
  /\ readers = <<>>
  /\ pc = "idle" /\ sub = NoDraft /\ user = Null /\ issueId = 0 /\ issue = Null
  /\ i = 0 /\ fileName = Null
  /\ toasts = <<>> /\ calls = <<>> /\ inflight = {}
  /\ authUid = Some("u1") /\ issuesTbl = {} /\ imagesTbl = {} /\ storage = {}
  /\ nextUuid = 1 /\ nextFile = 1 /\ refreshTrigger = 0 /\ submits = 0 /\ failures = 0
  /\ issues \in Sources /\ filteredIssues = issues /\ listLoading = FALSE
  /\ searchTerm = <<>> /\ statusFilter = "all" /\ categoryFilter = "all"
  /\ priorityFilter = "all"
  /\ mapIssues = issues /\ mapLoading = FALSE
  /\ effects = [listFetch |-> Some(0), filter |-> Some(FilterDeps), mapFetch |-> Some(0)]
  /\ screen = Rendering
  /\ fetches = <<>> /\ fetching = {} /\ responses = {}
  /\ second = Null /\ InitLayout

NextFilter ==
  \/ \E v \in SearchTerms : Quiet /\ setSearchTerm(v)
  \/ \E v \in StatusFilters : Quiet /\ setStatusFilter(v)
  \/ \E v \in CategoryFilters : Quiet /\ setCategoryFilter(v)
  \/ \E v \in PriorityFilters : Quiet /\ setPriorityFilter(v)
  \/ Quiet /\ clearFilters
  \/ render
  \/ filterEffect

SpecFilter == InitFilter /\ [][NextFilter]_vars

\* ================================================================ claims
\* what the running (or last) handleSubmit invocation is seen to have done
N == Len(sub.images)
Entries(op, phs, k) ==
  {j \in DOMAIN calls : calls[j].op = op /\ calls[j].ph \in phs /\ calls[j].idx = k}
AnyEntries(ops, phs) == {j \in DOMAIN calls : calls[j].op \in ops /\ calls[j].ph \in phs}
Shown(t) == \E j \in DOMAIN toasts : toasts[j] = t
FailureShown == \E j \in DOMAIN toasts : toasts[j].title = "Failed to report issue"
IssueInserted == Entries("insertIssue", {"ok"}, -1) # {}
\* uploads and record inserts that failed
K == Cardinality(AnyEntries({"upload"}, {"error"}))
R == Cardinality(AnyEntries({"insertImage"}, {"error"}))
\* rows this invocation created: randomUUID draws after its issue id
CreatedImages == {r \in imagesTbl : r.id > issueId}
CreatedIssues == {r \in issuesTbl : r.id >= issueId}

\* C1: When handleSubmit runs on a draft without a location or without a category,
\* it shows exactly a validation message and makes no backend call: the log of calls
\* stays empty, nothing is in flight, the backend is untouched, loading stays false.
C1_ValidationBeforeNetwork ==
  [][(handleSubmit /\ (location = Null \/ category = ""))
       => /\ toasts' \in {<<LocationRequired>>, <<CategoryRequired>>}
          /\ calls' = <<>>
          /\ inflight' = {}
          /\ pc' = "idle"
          /\ UNCHANGED <<loading, backendVars>>]_vars
C1_Witness ==
  /\ toasts = <<CategoryRequired>>
  /\ category = "" /\ location # Null
  /\ calls = <<>>

\* C2: The issue insert is called only after getUser has settled, and an upload or an
\* image-record insert is called only after the issue insert has settled ok (the
\* issue is then stored); the earlier request is no longer pending.
C2_StepsInOrder ==
  /\ \A j \in AnyEntries({"insertIssue"}, {"call"}) :
       \E m \in 1..(j - 1) : calls[m].op = "getUser" /\ calls[m].ph \in {"ok", "none"}
  /\ \A j \in AnyEntries({"upload", "insertImage"}, {"call"}) :
       \E m \in 1..(j - 1) : calls[m].op = "insertIssue" /\ calls[m].ph = "ok"
  /\ Req("insertIssue", -1) \in inflight => Req("getUser", -1) \notin inflight
  /\ (\E r \in inflight : r.op \in {"upload", "insertImage"})
       => /\ Req("insertIssue", -1) \notin inflight
          /\ Req("getUser", -1) \notin inflight
          /\ \E r \in issuesTbl : r.id = issueId
C2_Witness == Req("insertImage", 1) \in inflight

\* C3: If the issue insert returned an error, the invocation has ended with the
\* failure message carrying that error's message, without any upload or image-record
\* insert and without the success message.
C3_IssueInsertErrorIsFatal ==
  \A j \in Entries("insertIssue", {"error"}, -1) :
    /\ pc = "idle"
    /\ Shown(FailedToReport(calls[j].message))
    /\ ~Shown(Reported)
    /\ AnyEntries({"upload", "insertImage"}, {"call", "ok", "error"}) = {}
    /\ CreatedImages = {}
C3_Witness ==
  /\ Entries("insertIssue", {"error"}, -1) # {}
  /\ N > 0
  /\ Shown(FailedToReport("network error"))

\* C4: Once the issue insert has succeeded no failure message is shown, and when the
\* invocation has ended the success message is shown, whatever the uploads and the
\* image-record inserts answered.
C4_SuccessOnceIssueInserted ==
  IssueInserted => /\ ~FailureShown
                   /\ pc = "idle" => Shown(Reported)
C4_Witness ==
  /\ pc = "idle" /\ IssueInserted /\ Shown(Reported)
  /\ K > 0 /\ R > 0

\* C5 (as stated): a submission with N images of which K uploads failed ends in
\* success with exactly N-K image records, each referencing the created issue.
C5_AsStated ==
  (pc = "idle" /\ IssueInserted)
    => /\ Shown(Reported)
       /\ Cardinality(CreatedImages) = N - K
       /\ \A r \in CreatedImages : r.issue_id = issueId
\* C5 (amended): a submission with N images of which K uploads failed and R
\* image-record inserts failed ends in success with exactly N-K-R image records, each
\* referencing the created issue, which is stored.
C5_RecordsForStoredImages ==
  (pc = "idle" /\ IssueInserted)
    => /\ Shown(Reported)
       /\ Cardinality(CreatedImages) = N - K - R
       /\ \A r \in CreatedImages : r.issue_id = issueId
       /\ \E r \in issuesTbl : r.id = issueId
C5_Witness ==
  /\ pc = "idle" /\ IssueInserted
  /\ N = 3 /\ K = 1 /\ R = 1
  /\ Cardinality(CreatedImages) = 1

\* C6: After the issue insert succeeded, every image the loop has passed had its
\* upload called exactly once, whatever failed before it, no later image has been
\* touched, and the invocation ends only when all N images have been passed.
C6_EveryImageAttemptedOnce ==
  IssueInserted
    => /\ \A k \in 0..(N - 1) :
            Cardinality(Entries("upload", {"call"}, k))
              = IF k < i \/ (k = i /\ pc # "idle") THEN 1 ELSE 0
       /\ pc = "idle" => i = N
C6_Witness ==
  /\ pc = "idle" /\ IssueInserted /\ N = 3
  /\ Entries("upload", {"error"}, 0) # {}
  /\ Entries("insertImage", {"error"}, 1) # {}
  /\ Entries("upload", {"ok"}, 2) # {}

\* C7: Every image record references a stored issue and the public URL of a stored
\* object, and an image-record insert is called only after the upload of the same
\* image settled ok.
C7_ImageAfterIssueAndBinary ==
  /\ \A r \in imagesTbl :
       /\ \E iss \in issuesTbl : iss.id = r.issue_id
       /\ \E o \in storage : PublicUrl(o.name) = r.url
  /\ \A j \in AnyEntries({"insertImage"}, {"call"}) :
       /\ \E m \in 1..(j - 1) : calls[m] = Ev("upload", "ok", calls[j].idx, "")
       /\ Entries("upload", {"error"}, calls[j].idx) = {}
C7_Witness ==
  /\ Cardinality(imagesTbl) = 2
  /\ K > 0

\* C8: At most one request is in flight, uploads are called in index order, and the
\* upload of an image is called only after the upload of the image before it has
\* settled and, if that one's record insert was called, after it has settled too.
C8_OneImageAtATime ==
  /\ Cardinality(inflight) <= 1
  /\ \A j \in AnyEntries({"upload"}, {"call"}) :
       LET k == calls[j].idx IN
       /\ \A m \in 1..(j - 1) : calls[m].op \in {"upload", "insertImage"} => calls[m].idx < k
       /\ k > 0 =>
            /\ \E m \in 1..(j - 1) :
                 calls[m].op = "upload" /\ calls[m].idx = k - 1 /\ calls[m].ph \in {"ok", "error"}
            /\ \A m \in 1..(j - 1) :
                 (calls[m].op = "insertImage" /\ calls[m].idx = k - 1 /\ calls[m].ph = "call")
                   => \E q \in (m + 1)..(j - 1) :
                        calls[q].op = "insertImage" /\ calls[q].idx = k - 1
                          /\ calls[q].ph \in {"ok", "error"}
C8_Witness ==
  /\ Req("upload", 2) \in inflight
  /\ Entries("insertImage", {"ok"}, 0) # {}
  /\ Entries("upload", {"error"}, 1) # {}

\* C9: A successful submission has called the issue insert once and created exactly
\* one issue, whose title, description, category, priority, reporting user and point
\* are those of the submitted draft and of the user getUser returned; with no image
\* selected it has called no upload and created no image record.
C9_OneIssueMatchingDraft ==
  (pc = "idle" /\ Shown(Reported))
    => /\ Cardinality(AnyEntries({"insertIssue"}, {"call"})) = 1
       /\ Cardinality(CreatedIssues) = 1
       /\ \A r \in CreatedIssues :
            /\ r.id = issueId
            /\ r.title = sub.title /\ r.description = Some(sub.description)
            /\ r.category = sub.category /\ r.priority = sub.priority
            /\ Some(r.user_id) = user
            /\ r.location.type = "Point"
            /\ Some([lat |-> r.location.coordinates[2], lng |-> r.location.coordinates[1]])
                 = sub.location
       /\ N = 0 => /\ AnyEntries({"upload", "insertImage"}, {"call"}) = {}
                   /\ CreatedImages = {}
C9_Witness ==
  /\ pc = "idle" /\ Shown(Reported)
  /\ N = 0 /\ sub.title = <<"t">> /\ sub.priority = "high"
  /\ imagesTbl = {}

\* C10: If getUser returned no user, the invocation has ended with the failure
\* message "User not authenticated", and no issue insert, upload or image-record
\* insert was called.
C10_NotAuthenticatedIsFatal ==
  Entries("getUser", {"none"}, -1) # {}
    => /\ pc = "idle"
       /\ Shown(FailedToReport("User not authenticated"))
       /\ ~Shown(Reported)
       /\ AnyEntries({"insertIssue", "upload", "insertImage"}, {"call", "ok", "error"}) = {}
       /\ Len(calls) = 2
C10_Witness ==
  /\ Entries("getUser", {"none"}, -1) # {}
  /\ authUid = Null
  /\ N > 0

\* C11 (as stated): every issue insert is called after a profile upsert of the same
\* invocation has settled ok; with a failed upsert no issue insert is called.
C11_AsStated ==
  \A j \in AnyEntries({"insertIssue"}, {"call"}) :
    /\ \E m \in 1..(j - 1) : calls[m].op = "upsertProfile" /\ calls[m].ph = "ok"
    /\ \A m \in 1..(j - 1) : ~(calls[m].op = "upsertProfile" /\ calls[m].ph = "error")

C13_AtMostFiveQueued ==
  [][/\ Len(images') <= MaxImages
     /\ Len(sub'.images) <= MaxImages
     /\ Cardinality(AnyEntries({"upload"}, {"call"}))' <= MaxImages
     /\ toasts' = Append(toasts, TooManyImages)
          => UNCHANGED <<images, imagePreview, readers, loading, pc, location, category,
                         calls, inflight, backendVars>>
     /\ (pc = "idle" /\ pc' = "getUser") => sub'.images = images]_vars
C13_Witness ==
  /\ pc = "idle" /\ Shown(Reported)
  /\ sub.images = [k \in 1..MaxImages |-> FileAt(k)]
  /\ nextFile = MaxImages + 3
  /\ Cardinality(AnyEntries({"upload"}, {"call"})) = MaxImages
  /\ Cardinality(CreatedImages) = MaxImages

\* C14 (as stated): once 6 images have been selected for a draft that started with
\* none queued, in one selection event or in several, exactly 5 are queued and "Too
\* many images" has been shown.
C14_AsStated ==
  nextFile = MaxImages + 2 => Len(images) = MaxImages /\ Shown(TooManyImages)
\* C14 (amended): a selection event is rejected as a whole, with "Too many images" and
\* the queue left as it was, exactly when its files and the queued ones together are
\* more than 5, and is queued as a whole otherwise; so the queued images are the
\* selected files in order, less those of the rejected events, and never more than 5.
C14_SelectionRejectedAsAWhole ==
  [][nextFile' > nextFile
       => LET n == nextFile' - nextFile IN
          IF Len(images) + n > MaxImages
            THEN images' = images /\ toasts' = Append(toasts, TooManyImages)
            ELSE /\ images' = images \o [k \in 1..n |-> FileAt(nextFile + k - 1)]
                 /\ toasts' = toasts]_vars
C14_Witness ==
  /\ nextFile = MaxImages + 2
  /\ images = <<>>
  /\ toasts = <<TooManyImages>>

\* the issue list: the view as the filter effect left it for the current source and
\* criteria, described without the effect's code
Range(q) == {q[k] : k \in DOMAIN q}
Pos(q, x) == CHOOSE k \in DOMAIN q : q[k] = x
Filtered == effects.filter = Some(FilterDeps)
SameLetter(a, b) == a = b \/ {a, b} \in {{"a", "A"}, {"b", "B"}, {"d", "D"}, {"t", "T"}}
ContainsIgnoringCase(t, part) ==
  \E k \in 0..(Len(t) - Len(part)) : \A j \in 1..Len(part) : SameLetter(t[k + j], part[j])
TextPasses(x) ==
  \/ ContainsIgnoringCase(x.title, searchTerm)
  \/ x.description # Null /\ ContainsIgnoringCase(The(x.description), searchTerm)
ActivePredicates ==
  Cardinality({n \in 1..4 : <<searchTerm # <<>>, statusFilter # "all", categoryFilter # "all",
                              priorityFilter # "all">>[n]})

\* C16: Once the filter effect has run, the view holds exactly the issues of the source
\* that satisfy every active predicate (a non-empty search text; a status, category
\* or priority filter other than "all", matched exactly), each once, in the order of
\* the source; a predicate that is not active excludes nothing.
C16_ViewIsTheFilteredSource ==
  Filtered
    => /\ \A x \in Range(issues) :
            x \in Range(filteredIssues)
              <=> /\ searchTerm # <<>> => TextPasses(x)
                  /\ statusFilter # "all" => x.status = statusFilter
                  /\ categoryFilter # "all" => x.category = categoryFilter
                  /\ priorityFilter # "all" => x.priority = priorityFilter
       /\ Range(filteredIssues) \subseteq Range(issues)
       /\ \A a, b \in DOMAIN filteredIssues :
            a < b => Pos(issues, filteredIssues[a]) < Pos(issues, filteredIssues[b])
C16_Witness ==
  /\ Filtered /\ ActivePredicates = 2
  /\ Len(issues) = 2 /\ Len(filteredIssues) = 1
  /\ filteredIssues[1] = issues[2]

\* C17: A step that changes several criteria at once (only the Clear Filters buttons
\* do) leaves the search text empty and the three filters at "all"; and once the
\* filter effect has run on such criteria the view is the source.
C17_ClearedFiltersShowTheSource ==
  [][/\ Cardinality({n \in 1..4 :
                      <<searchTerm' # searchTerm, statusFilter' # statusFilter,
                        categoryFilter' # categoryFilter, priorityFilter' # priorityFilter>>[n]}) > 1
          => /\ searchTerm' = <<>> /\ statusFilter' = "all"
             /\ categoryFilter' = "all" /\ priorityFilter' = "all"
     /\ (Filtered /\ ActivePredicates = 0)' => filteredIssues' = issues']_vars
C17_Witness ==
  /\ Filtered /\ ActivePredicates = 0
  /\ filteredIssues = issues /\ Len(issues) = 2
  /\ screen.view = <<>> /\ screen.searchTerm = <<>> /\ screen.priorityFilter = "all"

\* C18: With a non-empty search text, once the filter effect has run, an issue that
\* passes the other filters is in the view exactly if its title contains the text
\* ignoring case, or it has a description that contains the text ignoring case; an
\* issue without description passes by its title only.
C18_SearchIgnoresCase ==
  (Filtered /\ searchTerm # <<>>)
    => \A x \in Range(issues) :
         (/\ statusFilter # "all" => x.status = statusFilter
          /\ categoryFilter # "all" => x.category = categoryFilter
          /\ priorityFilter # "all" => x.priority = priorityFilter)
           => /\ x \in Range(filteredIssues) <=> TextPasses(x)
              /\ x.description = Null
                   => (x \in Range(filteredIssues)
                         <=> ContainsIgnoringCase(x.title, searchTerm))
C18_Witness ==
  /\ Filtered /\ searchTerm = <<"a">>
  /\ \E x \in Range(filteredIssues) :
       x.description # Null /\ ~ContainsIgnoringCase(x.title, searchTerm)
  /\ \E x \in Range(filteredIssues) : x.description = Null
  /\ Len(issues) = 2

\* C15: The step that ends a submission in success leaves the title and the
\* description empty, the category unset, the priority medium, no location, no images
\* and no previews, and raises refreshTrigger by exactly 1; no other step changes
\* refreshTrigger; and once the screen is up to date the issue list and the map have
\* each called fetchIssues exactly once for every value refreshTrigger has taken.
FetchCalls(by, n) ==
  {j \in DOMAIN fetches : fetches[j].by = by /\ fetches[j].ph = "call" /\ fetches[j].trigger = n}
C20_AsStated ==
  ~screen.loading
    => screen.view = filtered(screen.issues, screen.searchTerm, screen.statusFilter,
                              screen.categoryFilter, screen.priorityFilter)

\* C19: Every submission that reaches the issue insert draws a new id for it: one that
\* no earlier draw of this form has yielded and no stored issue carries, also when the
\* insert before it failed; and no two stored issues share an id.
C19_FreshIdPerAttempt ==
  [][/\ (pc = "getUser" /\ pc' = "insertIssue")
          => /\ issueId' >= nextUuid /\ issueId' < nextUuid'
             /\ \A r \in issuesTbl : r.id # issueId'
     /\ \A r1, r2 \in issuesTbl' : r1.id = r2.id => r1 = r2
     /\ \A r \in issuesTbl' : r.id < nextUuid']_vars
C19_Witness ==
  /\ pc = "idle" /\ submits = 3 /\ issueId = 3
  /\ Cardinality(issuesTbl) = 2
  /\ \A r \in issuesTbl : r.id > 1
  /\ failures = 0

\* ------------------------------------------------- claims about the fetches
Comps == {"list", "map"}
Collection(by) == IF by = "list" THEN issues ELSE mapIssues
ViewLoading(by) == IF by = "list" THEN listLoading ELSE mapLoading
\* the log entries where component `by` took an answer, and called fetchIssues
Settles(by) == {k \in DOMAIN fetches : fetches[k].by = by /\ fetches[k].ph \in {"ok", "error"}}
Calls(by) == {k \in DOMAIN fetches : fetches[k].by = by /\ fetches[k].ph = "call"}
ResponseTo(j) == CHOOSE a \in responses : a.call = j
Max(S) == CHOOSE m \in S : \A n \in S : n <= m
Lifecycle(by) ==
  IF Settles(by) = {} THEN ViewLoading(by) /\ Collection(by) = <<>> ELSE ~ViewLoading(by)

\* C21: each view that fetches starts Loading with an empty source and stays so
\* until its first fetch settles; the first fetch to settle ends Loading, with the
\* fetched rows as the source if it succeeded, and with the error reported and the
\* source still empty if it failed; every later successful fetch replaces the
\* source by the rows fetched; and once a fetch has settled the view is never
\* Loading again.
C21_ViewLifecycle ==
  [][\A by \in Comps :
       /\ Lifecycle(by) /\ Lifecycle(by)'
       /\ \A k \in Settles(by)' \ Settles(by) :
            LET r == ResponseTo(fetches'[k].call) IN
            /\ ~ViewLoading(by)'
            /\ fetches'[k].ph = "ok" => r.ok /\ Collection(by)' = r.data
            /\ (fetches'[k].ph = "error" /\ Settles(by) = {})
                 => /\ Collection(by)' = <<>>
                    /\ toasts' = Append(toasts, FailedToLoad(r.message))]_vars
C21_Witness ==
  \E k1, k2 \in Settles("list") :
    /\ (\A k \in Settles("list") : k1 <= k) /\ fetches[k1].ph = "error"
    /\ k2 > k1 /\ fetches[k2].ph = "ok"
    /\ ~listLoading /\ Len(issues) = 2 /\ fetching = {}

\* C22: a fetch that fails leaves the collection as it was, and the filter criteria
\* and the view computed from them; it reports a load error and nothing else; and
\* fetchIssues is called at most once for each value of refreshTrigger, so a failed
\* fetch is not tried again until refreshTrigger changes.
C22_FailedFetchChangesNothing ==
  [][\A by \in Comps :
       /\ \A k \in Settles(by)' \ Settles(by) :
            fetches'[k].ph = "error"
              => /\ Collection(by)' = Collection(by)
                 /\ UNCHANGED <<filteredIssues, searchTerm, statusFilter, categoryFilter,
                                priorityFilter, refreshTrigger, effects, issuesTbl>>
                 /\ toasts' = Append(toasts, FailedToLoad(ResponseTo(fetches'[k].call).message))
       /\ \A n \in 0..refreshTrigger' : Cardinality(FetchCalls(by, n)') <= 1]_vars
C22_Witness ==
  \E k \in Settles("list") :
    /\ fetches[k].ph = "error" /\ fetches[k].trigger = 1
    /\ Len(issues) = 1 /\ Cardinality(issuesTbl) = 2
    /\ fetching = {} /\ Committed /\ effects.listFetch = RefreshDeps(refreshTrigger)
    /\ toasts # <<>> /\ toasts[Len(toasts)].title = FailedToLoad("").title

\* C26 (as stated): once every fetch of a component has settled, its collection
\* holds the rows the backend gave to the fetch the component started last, when
\* that fetch succeeded.
C26_AsStated ==
  \A by \in Comps :
    (Calls(by) # {} /\ \A j \in Calls(by) : j \notin fetching)
      => LET r == ResponseTo(Max(Calls(by))) IN r.ok => Collection(by) = r.data

\* C23: an issue the form submitted from the location (lat, lng) is, once the map
\* has fetched it, plotted at the position (lat, lng) and, when selected, centred
\* at (lat, lng): the form writes the point longitude first and the map reads it
\* longitude first, so the two are never swapped.
C23_LocationRoundTrip ==
  \A k \in 1..Len(mapIssues) :
    authUid = Some(mapIssues[k].user_id)
      => /\ sub.location # Null
         /\ markerPosition(mapIssues[k])
              = Some(<<The(sub.location).lat, The(sub.location).lng>>)
         /\ setView(mapIssues[k])
              = Some([center |-> <<The(sub.location).lat, The(sub.location).lng>>, zoom |-> 16])
C23_Witness ==
  /\ pc = "idle" /\ Shown(Reported) /\ fetching = {}
  /\ Len(mapIssues) = 1 /\ mapIssues[1].id = issueId
  /\ The(sub.location).lat # The(sub.location).lng

\* C24: every invocation of handleSubmit shows exactly one message: a validation
\* message when the draft has no location or no category, and otherwise nothing
\* while it runs, whatever uploads and image records fail, and exactly one message
\* when it ends, the success message or the failure message and never both.
C24_OneMessagePerInvocation ==
  [][/\ (handleSubmit /\ (location = Null \/ category = ""))
          => toasts' \in {<<LocationRequired>>, <<CategoryRequired>>}
     /\ (handleSubmit /\ ~(location = Null \/ category = "")) => toasts' = <<>>
     /\ (pc # "idle" /\ pc' # "idle") => toasts' = <<>>
     /\ (pc # "idle" /\ pc' = "idle")
          => /\ Len(toasts') = 1
             /\ toasts'[1] = Reported \/ toasts'[1].title = "Failed to report issue"
             /\ ~(Shown(Reported)' /\ FailureShown')]_vars
C24_Witness == pc = "idle" /\ toasts = <<Reported>> /\ K > 0 /\ R > 0

\* C27: when a submission ends with the failure message (no user, or the issue
\* insert failed), that step leaves title, description, category, priority,
\* location, images and previews as they are, which is as they were submitted, and
\* leaves refreshTrigger as it is; loading is false again, so the submit control is
\* enabled for the same draft.
C27_FailureKeepsTheDraft ==
  [][(pc # "idle" /\ pc' = "idle" /\ FailureShown')
       => /\ UNCHANGED <<title, description, category, priority, location, images,
                         imagePreview, refreshTrigger>>
          /\ Draft' = sub
          /\ ~loading' /\ location' # Null /\ category' # ""]_vars
C27_Witness ==
  /\ pc = "idle" /\ FailureShown /\ ~IssueInserted
  /\ title # <<>> /\ description # <<>> /\ priority = "high"
  /\ Len(images) = 2 /\ Len(imagePreview) = 2 /\ Draft = sub /\ refreshTrigger = 0

\* --------------------------------------- claims about overlapping submissions
\* the invocations of handleSubmit in flight
InFlight ==
  (IF pc # "idle" THEN {"first"} ELSE {})
    \cup (IF second # Null /\ The(second).pc # "done" THEN {"second"} ELSE {})

\* C28 (as stated): loading is true exactly while an invocation of handleSubmit
\* that passed validation is in flight.
C28_AsStated == loading <=> InFlight # {}

\* C29 (as stated): at most one invocation of handleSubmit of a form is in flight
\* at any time: none starts before the one before it has settled.
C29_AsStated == Cardinality(InFlight) <= 1

\* ---------------------------------------------- claims about the layout's session
\* C30 (as stated): once a notification of an auth state change has been applied,
\* the result of the initial getSession, resolving later, does not put an older
\* session in user and session; and user is non-null exactly when session is.
C30_AsStated ==
  [][/\ (gs.ph = "read" /\ gs'.ph = "done" /\ shown.notified) => shown'.v >= shown.v
     /\ layoutUser' # Null <=> session' # Null]_vars

\* ------------------------------------------------- claims about the previews
\* C25 (as stated): whenever no file read is pending, imagePreview is as long as
\* images and its i-th entry is the preview of the i-th image.
C25_AsStated ==
  readers = <<>>
    => /\ Len(imagePreview) = Len(images)
       /\ \A idx \in DOMAIN images : imagePreview[idx] = DataUrl(images[idx])
====
